---- MODULE Spec2Model ----
(***************************************************************************)
(* rcwd: print the working directory of the process behind the focused     *)
(* X11 window.  The model follows src/src/main.rs:                         *)
(*   - get_proc_and_focused_window_pid (the Focus Resolver), one action    *)
(*     per round trip to the X server or to the file system;               *)
(*   - Cwd::new, Cwd::exists_or_err and get_child_cwd (the Cwd Resolver),  *)
(*     the recursion unfolded over an explicit stack of frames so that     *)
(*     processes may exit and directories may vanish between two reads.    *)
(* Strings that the code only compares as a whole are TLA+ strings; an     *)
(* executable path is the sequence of its components (<<"/","usr","bin",   *)
(* "bash">>), so that whole-path equality differs from name equality.      *)
(***************************************************************************)
EXTENDS Integers, Sequences, FiniteSets, TLC

VARIABLES
    fpc,                \* Focus Resolver: the step it is about to take
    log,                \* the requests made to the outside world, in order
    window,             \* the decoded _NET_ACTIVE_WINDOW value (0: none yet)
    proc,               \* TRUE once the /proc handle is held
    replies,            \* the replies to the fixed-width property requests
    fres,               \* Focus Resolver outcome
    stderr,             \* diagnostics printed with eprintln!
    exe_in, cwd_in, priority_in, cwd_out,  \* Cwd::new: inputs and result
    proc_exe,           \* process table: pid -> target of /proc/pid/exe
    proc_cwd,           \* process table: pid -> target of /proc/pid/cwd
    proc_children,      \* process table: pid -> pids in /proc/pid/task/pid/children
    dirs,               \* the directories that exist
    priority_commands,  \* the command line arguments
    debug_assertions,   \* cfg!(debug_assertions) of the build
    stack,              \* the nested calls of get_child_cwd, innermost last
    cres,               \* result of the outermost get_child_cwd
    last_ret,           \* the call of get_child_cwd that returned last
    disturbed,          \* TRUE once a read of /proc failed or a directory went
    stdout,             \* the lines printed with println!
    exit_status         \* of the process, "" while it runs

vars == <<fpc, log, window, proc, replies, fres, stderr,
          exe_in, cwd_in, priority_in, cwd_out,
          proc_exe, proc_cwd, proc_children, dirs,
          priority_commands, debug_assertions, stack, cres, last_ret,
          disturbed, stdout, exit_status>>

focus_vars == <<fpc, log, window, proc, replies, fres>>
classify_vars == <<exe_in, cwd_in, priority_in, cwd_out>>
table_vars == <<proc_exe, proc_cwd, proc_children, priority_commands, debug_assertions>>
cwd_vars == <<proc_exe, proc_cwd, proc_children, dirs,
              priority_commands, debug_assertions, stack, cres, last_ret, disturbed>>
main_vars == <<stdout, exit_status>>

\* what the steps of each part leave alone
outside_focus == <<classify_vars, cwd_vars, main_vars>>
outside_walk == <<focus_vars, classify_vars, table_vars, main_vars>>
outside_classify == <<focus_vars, stderr, cwd_vars, main_vars>>

----------------------------------------------------------------------------
(* Bounds of the model *)

MaxClassLen == 2        \* bytes of a WM_CLASS reply
MaxPriority == 2        \* entries of the priority list
NPids == 3              \* processes in the process table
MaxRemovals == 1        \* directories removed during the walk
StackLimit == 5         \* nested calls of get_child_cwd that the stack holds

(* Program constants *)

WINDOW_NONE == 0
X11WmState == [Withdrawn |-> 0, Normal |-> 1, Iconic |-> 3]

----------------------------------------------------------------------------
(* Property replies.  A reply is an error, or carries a format (bits per   *)
(* item), a value count and the bytes of the value; the X library gives    *)
(* value_len * format / 8 bytes.  Requests with long_length 1 get at most  *)
(* 4 bytes.                                                                *)

\* the 32-bit values that replies are built from
U32Samples == {0, 1, 2, 3, 256, 2147483647}

\* u32::to_le_bytes, the wire form of a 32-bit item
to_le_bytes(v) ==
    << v % 256, (v \div 256) % 256, (v \div 65536) % 256, (v \div 16777216) % 256 >>

\* the values of n bytes: the first n bytes of a sample's wire form
RawOfLen(n) == { SubSeq(to_le_bytes(v), 1, n) : v \in U32Samples }

ErrReply == [ok |-> FALSE, format |-> 0, value_len |-> 0, value |-> <<>>]

Replies32 ==
    {ErrReply} \cup
    { [ok |-> TRUE, format |-> f, value_len |-> n, value |-> v] :
        <<f, n, v>> \in
            UNION { { <<fn[1], fn[2], v>> : v \in RawOfLen((fn[1] * fn[2]) \div 8) } :
                    fn \in { <<0, 0>>, <<32, 1>>, <<16, 1>>, <<16, 2>>,
                             <<8, 1>>, <<8, 2>>, <<8, 3>>, <<8, 4>> } } }

\* byteorder::ReadBytesExt::read_u32::<LittleEndian> on a 4 byte slice
read_u32_le(raw) == raw[1] + 256 * raw[2] + 65536 * raw[3] + 16777216 * raw[4]

\* WM_CLASS: a byte string; 97 is 'a', 255 never occurs in UTF-8
ClassBytes == {0, 97, 255}
ClassReplies ==
    {ErrReply} \cup
    { [ok |-> TRUE, format |-> 8, value_len |-> Len(v), value |-> v] :
        v \in UNION { [1..n -> ClassBytes] : n \in 0..MaxClassLen } }

RECURSIVE take_while_not_nul(_)
take_while_not_nul(s) ==
    IF s = <<>> \/ Head(s) = 0 THEN <<>>
    ELSE <<Head(s)>> \o take_while_not_nul(Tail(s))

\* String::from_utf8 succeeds on these bytes iff none is outside ASCII
is_utf8(s) == \A i \in 1..Len(s) : s[i] < 128

----------------------------------------------------------------------------
(* Focus Resolver: get_proc_and_focused_window_pid *)

\* the bug of opening /proc at the start of the function
StepsProcFirst ==
    <<"connect", "open_proc", "root", "active_atom", "active_prop",
      "state_atom", "state_prop", "pid_atom", "pid_prop", "class_prop">>
\* the order of the steps of the function body
Steps ==
    <<"connect", "root", "active_atom", "active_prop", "open_proc",
      "state_atom", "state_prop", "pid_atom", "pid_prop", "class_prop">>

StepIndex(s) == CHOOSE i \in 1..Len(Steps) : Steps[i] = s
StepAfter(s) == Steps[StepIndex(s) + 1]

Running == [kind |-> "running", msg |-> "", at |-> "", pid |-> 0, class |-> <<>>]
Err(msg, at) == [kind |-> "err", msg |-> msg, at |-> at, pid |-> 0, class |-> <<>>]
Panic(msg, at) == [kind |-> "panic", msg |-> msg, at |-> at, pid |-> 0, class |-> <<>>]

\* what a property step saw: the reply, the value if it is 4 bytes, and
\* the bytes of a WM_CLASS
Seen(step, reply) ==
    [step |-> step, ok |-> reply.ok, value_len |-> reply.value_len,
     nbytes |-> Len(reply.value),
     value |-> IF Len(reply.value) = 4 THEN read_u32_le(reply.value) ELSE 0,
     raw |-> IF step = "class_prop" THEN reply.value ELSE <<>>]

\* the outcomes of one step: go on, or end with a result or a panic
Continue(s) ==
    /\ fpc' = StepAfter(s)
    /\ fres' = fres
Return(r) ==
    /\ fpc' = "done"
    /\ fres' = r

\* lines 23-27: connect, then send the three intern_atom requests
Connect ==
    /\ fpc = "connect"
    /\ log' = Append(log, "connect")
    /\ \E ok \in BOOLEAN :
        IF ok THEN Continue("connect")
        ELSE Return(Err("Unable to open X11 connection", "connect"))
    /\ UNCHANGED <<window, proc, replies, stderr>>
    /\ UNCHANGED outside_focus

\* lines 30-31
SelectRoot ==
    /\ fpc = "root"
    /\ \E ok \in BOOLEAN :
        IF ok THEN Continue("root")
        ELSE Return(Err("Unable to select current screen", "root"))
    /\ UNCHANGED <<log, window, proc, replies, stderr>>
    /\ UNCHANGED outside_focus

\* line 33
ActiveWindowAtom ==
    /\ fpc = "active_atom"
    /\ \E ok \in BOOLEAN :
        IF ok THEN Continue("active_atom")
        ELSE Return(Err("Unable to retrieve _NET_ACTIVE_WINDOW atom", "active_atom"))
    /\ UNCHANGED <<log, window, proc, replies, stderr>>
    /\ UNCHANGED outside_focus

\* lines 35-47
\* the bug of taking WINDOW_NONE for a window
ActiveWindowResultNoSentinel(reply) ==
    IF ~reply.ok
    THEN Err("Unable to retrieve _NET_ACTIVE_WINDOW property from root", "active_prop")
    ELSE IF reply.value_len = 0
    THEN Err("Unable to retrieve _NET_ACTIVE_WINDOW property from root", "active_prop")
    ELSE IF reply.value_len # 1
    THEN Panic("assert_eq!(reply.value_len(), 1)", "active_prop")
    ELSE IF Len(reply.value) # 4
    THEN Panic("assert_eq!(raw.len(), 4)", "active_prop")
    ELSE Running

ActiveWindowResult(reply) ==
    IF ~reply.ok
    THEN Err("Unable to retrieve _NET_ACTIVE_WINDOW property from root", "active_prop")
    ELSE IF reply.value_len = 0
    THEN Err("Unable to retrieve _NET_ACTIVE_WINDOW property from root", "active_prop")
    ELSE IF reply.value_len # 1
    THEN Panic("assert_eq!(reply.value_len(), 1)", "active_prop")
    ELSE IF Len(reply.value) # 4
    THEN Panic("assert_eq!(raw.len(), 4)", "active_prop")
    ELSE IF read_u32_le(reply.value) = WINDOW_NONE
    THEN Err("No window is focused", "active_prop")
    ELSE Running

ActiveWindow ==
    /\ fpc = "active_prop"
    /\ log' = Append(log, "get_property _NET_ACTIVE_WINDOW")
    /\ \E reply \in Replies32 :
        LET r == ActiveWindowResult(reply) IN
        /\ replies' = Append(replies, Seen("active_prop", reply))
        /\ IF r = Running
           THEN /\ window' = read_u32_le(reply.value)
                /\ Continue("active_prop")
           ELSE /\ window' = window
                /\ Return(r)
    /\ UNCHANGED <<proc, stderr>>
    /\ UNCHANGED outside_focus

\* line 50
OpenProc ==
    /\ fpc = "open_proc"
    /\ log' = Append(log, "open /proc")
    /\ \E ok \in BOOLEAN :
        IF ok THEN /\ proc' = TRUE
                   /\ Continue("open_proc")
        ELSE /\ proc' = proc
             /\ Return(Err("Unable to open /proc", "open_proc"))
    /\ UNCHANGED <<window, replies, stderr>>
    /\ UNCHANGED outside_focus

\* line 53
StateAtom ==
    /\ fpc = "state_atom"
    /\ \E ok \in BOOLEAN :
        IF ok THEN Continue("state_atom")
        ELSE Return(Err("Unable to retrieve WM_STATE atom", "state_atom"))
    /\ UNCHANGED <<log, window, proc, replies, stderr>>
    /\ UNCHANGED outside_focus

\* the bug of letting an iconic window through
IsNormalOrIconic(state) == state = X11WmState.Normal \/ state = X11WmState.Iconic

\* line 65: the window is in the normal state
IsNormal(state) == state = X11WmState.Normal

\* the bug of ending the run when the window has no WM_STATE
WmStateResultAbsentFails(reply) ==
    IF ~reply.ok THEN Running
    ELSE IF reply.value_len = 0
    THEN Err("Unable to retrieve WM_STATE from focused window", "state_prop")
    ELSE IF reply.value_len # 1
    THEN Panic("assert_eq!(reply.value_len(), 1)", "state_prop")
    ELSE IF Len(reply.value) # 4
    THEN Panic("assert_eq!(raw.len(), 4)", "state_prop")
    ELSE IF ~IsNormal(read_u32_le(reply.value))
    THEN Err("Focused window is not in normal (visible) state", "state_prop")
    ELSE Running

\* lines 55-73
WmStateResult(reply) ==
    IF ~reply.ok THEN Running
    ELSE IF reply.value_len = 0 THEN Running
    ELSE IF reply.value_len # 1
    THEN Panic("assert_eq!(reply.value_len(), 1)", "state_prop")
    ELSE IF Len(reply.value) # 4
    THEN Panic("assert_eq!(raw.len(), 4)", "state_prop")
    ELSE IF ~IsNormal(read_u32_le(reply.value))
    THEN Err("Focused window is not in normal (visible) state", "state_prop")
    ELSE Running

WmState ==
    /\ fpc = "state_prop"
    /\ log' = Append(log, "get_property WM_STATE")
    /\ \E reply \in Replies32 :
        LET r == WmStateResult(reply) IN
        /\ replies' = Append(replies, Seen("state_prop", reply))
        /\ stderr' = IF ~reply.ok \/ reply.value_len = 0
                     THEN Append(stderr, <<"Unable to retrieve WM_STATE from focused window", window, 0>>)
                     ELSE stderr
        /\ IF r = Running THEN Continue("state_prop") ELSE Return(r)
    /\ UNCHANGED <<window, proc>>
    /\ UNCHANGED outside_focus

\* line 76
PidAtom ==
    /\ fpc = "pid_atom"
    /\ \E ok \in BOOLEAN :
        IF ok THEN Continue("pid_atom")
        ELSE Return(Err("Unable to retrieve _NET_WM_PID", "pid_atom"))
    /\ UNCHANGED <<log, window, proc, replies, stderr>>
    /\ UNCHANGED outside_focus

\* lines 78-83 and 92-95
WmPidResult(reply) ==
    IF ~reply.ok
    THEN Panic("Unable to retrieve _NET_WM_PID from focused window", "pid_prop")
    ELSE IF reply.value_len = 0 THEN Running
    ELSE IF reply.value_len # 1
    THEN Panic("assert_eq!(reply.value_len(), 1)", "pid_prop")
    ELSE IF Len(reply.value) # 4
    THEN Panic("assert_eq!(raw.len(), 4)", "pid_prop")
    ELSE [kind |-> "ok", msg |-> "", at |-> "pid_prop",
          pid |-> read_u32_le(reply.value), class |-> <<>>]

WmPid ==
    /\ fpc = "pid_prop"
    /\ log' = Append(log, "get_property _NET_WM_PID")
    /\ \E reply \in Replies32 :
        LET r == WmPidResult(reply) IN
        /\ replies' = Append(replies, Seen("pid_prop", reply))
        /\ IF r = Running
           THEN /\ Continue("pid_prop")
                /\ stderr' = Append(stderr, <<"Unable to retrieve _NET_WM_PID from focused window; trying WM_CLASS", window, 0>>)
           ELSE /\ Return(r)
                /\ stderr' = stderr
    /\ UNCHANGED <<window, proc>>
    /\ UNCHANGED outside_focus

\* lines 84-90
WmClassResult(reply) ==
    IF ~reply.ok
    THEN Panic("Unable to retrieve WM_CLASS from focused window", "class_prop")
    ELSE IF ~is_utf8(take_while_not_nul(reply.value))
    THEN Panic("Unable to decode", "class_prop")
    ELSE [kind |-> "err", msg |-> "Unimplemented: Find processes named",
          at |-> "class_prop", pid |-> 0, class |-> take_while_not_nul(reply.value)]

WmClass ==
    /\ fpc = "class_prop"
    /\ log' = Append(log, "get_property WM_CLASS")
    /\ \E reply \in ClassReplies :
        /\ replies' = Append(replies, Seen("class_prop", reply))
        /\ Return(WmClassResult(reply))
    /\ UNCHANGED <<window, proc, stderr>>
    /\ UNCHANGED outside_focus

FocusInit ==
    /\ fpc = "connect"
    /\ log = <<>>
    /\ window = 0
    /\ proc = FALSE
    /\ replies = <<>>
    /\ fres = Running

FocusIdle ==
    /\ fpc = "done"
    /\ log = <<>>
    /\ window = 0
    /\ proc = FALSE
    /\ replies = <<>>
    /\ fres = Running

FocusStep ==
    \/ Connect
    \/ SelectRoot
    \/ ActiveWindowAtom
    \/ ActiveWindow
    \/ OpenProc
    \/ StateAtom
    \/ WmState
    \/ PidAtom
    \/ WmPid
    \/ WmClass

----------------------------------------------------------------------------
(* Cwd::new *)

Exes == { <<"/", "usr", "bin", "bash">>, <<"bash">>, <<"/", "usr", "bin", "vim">> }
Dirs == { "/home/a", "/home", "/tmp", "/opt" }

\* what the process tables of the walk are built from
WalkDirs == { "/home", "/tmp" }
WalkExes == { <<"/", "usr", "bin", "bash">>, <<"/", "usr", "bin", "vim">> }
WalkPriorityLists == { << <<"bash">>, <<"/", "usr", "bin", "bash">> >> }

Regular(path) == [tag |-> "Regular", path |-> path]
Priority(path) == [tag |-> "Priority", path |-> path]

\* the bug of comparing command names instead of whole paths
CwdNewByName(cwd, exe, commands) ==
    IF \E i \in 1..Len(commands) :
          commands[i][Len(commands[i])] = exe[Len(exe)]
    THEN Priority(cwd) ELSE Regular(cwd)

\* lines 104-106
CwdNew(cwd, exe, commands) ==
    IF \E i \in 1..Len(commands) : commands[i] = exe
    THEN Priority(cwd) ELSE Regular(cwd)

NoCwd == [tag |-> "none", path |-> ""]

ClassifyIdle ==
    /\ exe_in = <<>>
    /\ cwd_in = ""
    /\ priority_in = <<>>
    /\ cwd_out = NoCwd

PriorityLists == UNION { [1..n -> Exes] : n \in 0..MaxPriority }

ClassifyInit ==
    /\ exe_in \in Exes
    /\ cwd_in \in Dirs
    /\ priority_in \in PriorityLists
    /\ cwd_out = NoCwd

Classify ==
    /\ cwd_out = NoCwd
    /\ cwd_out' = CwdNew(cwd_in, exe_in, priority_in)
    /\ UNCHANGED <<exe_in, cwd_in, priority_in>>
    /\ UNCHANGED outside_classify

----------------------------------------------------------------------------
(* Cwd Resolver: get_child_cwd *)

\* results of get_child_cwd.  errpid and errpath are what an error message
\* names.  origin names the process whose classification the Cwd is, deepest
\* the end of the chain of first resolved children; the two are bookkeeping
\* for the properties, the code does not carry them.
COk(cwd, origin, deepest) ==
    [kind |-> "ok", cwd |-> cwd, msg |-> "", errpid |-> 0, errpath |-> "",
     origin |-> origin, deepest |-> deepest]
CErr(msg, pid, path) ==
    [kind |-> "err", cwd |-> NoCwd, msg |-> msg, errpid |-> pid, errpath |-> path,
     origin |-> 0, deepest |-> 0]
CPanic(msg) ==
    [kind |-> "panic", cwd |-> NoCwd, msg |-> msg, errpid |-> 0, errpath |-> "",
     origin |-> 0, deepest |-> 0]
CRunning ==
    [kind |-> "running", cwd |-> NoCwd, msg |-> "", errpid |-> 0, errpath |-> "",
     origin |-> 0, deepest |-> 0]

\* lines 108-114, on a result; existing is the set of directories there are
exists_or_err(r, existing) ==
    IF r.cwd.path \in existing THEN r
    ELSE CErr("does not exist anymore", 0, r.cwd.path)

NoChild == [pid |-> 0, res |-> CRunning]

\* the locals of one call: pc is the place in the function body,
\* toks the part of the children list that the iterator has not consumed,
\* results the children resolved so far (bookkeeping)
NewFrame(pid) ==
    [pid |-> pid, pc |-> "exe", exe |-> <<>>, cwd |-> NoCwd, toks |-> <<>>,
     first |-> NoChild, chosen |-> CRunning, results |-> <<>>]

Top == stack[Len(stack)]
Walking == cres.kind = "running" /\ stack # <<>>

\* the bug of following the first child only
NeverPriority(cwd) == FALSE

\* lines 177-180: the predicate of find
IsPriority(cwd) == cwd.tag = "Priority"

\* lines 167-184: the iterator yields the result r of child c to the
\* caller f.  The first result is child_cwd (line 167), the second is the
\* peeked one (line 169), and find goes on from the peeked one (lines
\* 177-180).
Yield(f, c, r) ==
    LET g == [f EXCEPT !.results = Append(@, [pid |-> c, res |-> r])] IN
    CASE f.pc = "next" ->
           [g EXCEPT !.first = [pid |-> c, res |-> r], !.pc = "peek"]
      [] f.pc = "peek" ->
           IF f.first.res.cwd.tag = "Regular"
           THEN IF IsPriority(r.cwd)
                THEN [g EXCEPT !.chosen = r, !.pc = "merge"]
                ELSE [g EXCEPT !.pc = "find"]
           ELSE [g EXCEPT !.chosen = f.first.res, !.pc = "merge"]
      [] f.pc = "find" ->
           IF IsPriority(r.cwd)
           THEN [g EXCEPT !.chosen = r, !.pc = "merge"]
           ELSE g

\* the bug of taking a failed child for the chosen one instead of dropping it
DeliverFailures(f, c, r) ==
    IF r.kind # "ok" THEN [f EXCEPT !.chosen = r, !.pc = "merge"]
    ELSE Yield(f, c, r)

\* lines 163-166: the caller f receives the result r of its child c; a
\* failed child is filtered out
Deliver(f, c, r) ==
    IF r.kind # "ok" THEN f
    ELSE Yield(f, c, r)

\* line 171
MultipleChildren(pid, child_pid) ==
    <<"Warning: Process has multiple children. Following", pid, child_pid>>

\* the innermost call ends with r: a panic ends the program, a return hands
\* r to the caller, which goes on in its iterator
ReturnWith(r, chosen) ==
    LET f == Top
        n == Len(stack)
    IN
    /\ last_ret' = [pid |-> f.pid, own |-> f.cwd, first |-> f.first,
                    results |-> f.results, chosen |-> chosen, result |-> r,
                    existing |-> dirs, depth |-> n, at |-> f.pc]
    /\ IF r.kind = "panic" \/ n = 1
       THEN /\ stack' = <<>>
            /\ cres' = r
            /\ stderr' = stderr
       ELSE /\ stack' = SubSeq(stack, 1, n - 2) \o <<Deliver(stack[n - 1], f.pid, r)>>
            /\ cres' = cres
            /\ stderr' = IF stack[n - 1].pc = "peek" /\ r.kind = "ok"
                         THEN Append(stderr,
                                     MultipleChildren(stack[n - 1].pid, stack[n - 1].first.pid))
                         ELSE stderr

SetTop(f) == stack' = [stack EXCEPT ![Len(stack)] = f]

\* A read of an entry of /proc/pid fails when there is no such process, and
\* may fail for one there was: it has exited, or is a zombie.  The three
\* entries of a process are read once each and in this order, so that a
\* failure drawn at the read stands for an exit at any earlier moment.

\* lines 139-141
ReadExe ==
    /\ Walking
    /\ Top.pc = "exe"
    /\ \E ok \in BOOLEAN :
       /\ disturbed' = (disturbed \/ ~ok)
       /\ IF ok /\ Top.pid \in DOMAIN proc_exe
          THEN /\ SetTop([Top EXCEPT !.exe = proc_exe[Top.pid], !.pc = "cwd"])
               /\ UNCHANGED <<cres, last_ret, stderr>>
          ELSE ReturnWith(CErr("Unable to read exe", Top.pid, ""), CRunning)
    /\ UNCHANGED dirs
    /\ UNCHANGED outside_walk

\* lines 142-145
ReadCwd ==
    /\ Walking
    /\ Top.pc = "cwd"
    /\ \E ok \in BOOLEAN :
       /\ disturbed' = (disturbed \/ ~ok)
       /\ IF ok
          THEN /\ SetTop([Top EXCEPT
                            !.cwd = CwdNew(proc_cwd[Top.pid], Top.exe, priority_commands),
                            !.pc = "children"])
               /\ UNCHANGED <<cres, last_ret, stderr>>
          ELSE ReturnWith(CErr("Unable to read cwd", Top.pid, ""), CRunning)
    /\ UNCHANGED dirs
    /\ UNCHANGED outside_walk

\* lines 148-157.  The file lists pids as the kernel prints them: no leading
\* blank (line 160) and every token a number (line 164).
ReadChildren ==
    /\ Walking
    /\ Top.pc = "children"
    /\ \E ok \in BOOLEAN :
       /\ disturbed' = (disturbed \/ ~ok)
       /\ IF ~ok
          THEN ReturnWith(CErr("Unable to open children", Top.pid, ""), CRunning)
          ELSE IF proc_children[Top.pid] = <<>>
          THEN ReturnWith(exists_or_err(COk(Top.cwd, Top.pid, Top.pid), dirs), CRunning)
          ELSE /\ SetTop([Top EXCEPT !.toks = proc_children[Top.pid], !.pc = "next"])
               /\ UNCHANGED <<cres, last_ret, stderr>>
    /\ UNCHANGED dirs
    /\ UNCHANGED outside_walk

\* line 165: the iterator takes the next token and resolves that child.
\* Nothing in get_child_cwd counts the calls: the only limit is the stack.
Descend ==
    /\ Walking
    /\ Top.pc \in {"next", "peek", "find"}
    /\ Top.toks # <<>>
    /\ Len(stack) < StackLimit
    /\ stack' = [stack EXCEPT ![Len(stack)] = [Top EXCEPT !.toks = Tail(@)]]
                \o <<NewFrame(Head(Top.toks))>>
    /\ UNCHANGED <<cres, last_ret, stderr, dirs, disturbed>>
    /\ UNCHANGED outside_walk

\* line 165, when the stack holds no further call: the process is killed
StackOverflow ==
    /\ Walking
    /\ Top.pc \in {"next", "peek", "find"}
    /\ Top.toks # <<>>
    /\ Len(stack) = StackLimit
    /\ stack' = <<>>
    /\ cres' = CPanic("stack overflow")
    /\ UNCHANGED <<last_ret, stderr, dirs, disturbed>>
    /\ UNCHANGED outside_walk

\* lines 185-188: the iterator ended without one resolved child
NoValidChild ==
    /\ Walking
    /\ Top.pc = "next"
    /\ Top.toks = <<>>
    /\ ReturnWith(exists_or_err(COk(Top.cwd, Top.pid, Top.pid), dirs), CRunning)
    /\ UNCHANGED <<dirs, disturbed>>
    /\ UNCHANGED outside_walk

\* the bug of returning the parent's Cwd without looking whether it exists
MergeResultUnchecked(own, child, existing, debug) ==
    IF own.cwd.tag = "Priority" /\ child.cwd.tag = "Regular" THEN own ELSE child

\* the bug of preferring the parent whenever the child has no priority
MergeResultParentFirst(own, child, existing, debug) ==
    IF child.cwd.tag = "Regular"
    THEN IF exists_or_err(own, existing).kind = "ok" THEN own
         ELSE IF exists_or_err(child, existing).kind = "ok" THEN child
         ELSE exists_or_err(own, existing)
    ELSE child

\* lines 189-204
MergeResult(own, child, existing, debug) ==
    IF own.cwd.tag = "Priority" /\ child.cwd.tag = "Regular"
    THEN IF exists_or_err(own, existing).kind = "ok" THEN own
         ELSE IF exists_or_err(child, existing).kind = "ok" THEN child
         ELSE exists_or_err(own, existing)
    ELSE IF debug
    THEN IF exists_or_err(child, existing).kind = "ok" THEN child
         ELSE CPanic("assert!(child_cwd.is_ok())")
    ELSE child

\* lines 167-204, once the iterator has given what the selection needs:
\* the chosen child is the Priority one found, or else the first
Merge ==
    /\ Walking
    /\ \/ Top.pc = "merge"
       \/ Top.pc \in {"peek", "find"} /\ Top.toks = <<>>
    /\ LET child == IF Top.pc = "merge" THEN Top.chosen ELSE Top.first.res
           own == COk(Top.cwd, Top.pid, Top.pid)
           r == MergeResult(own, child, dirs, debug_assertions)
       IN ReturnWith(IF r.kind = "ok"
                     THEN [r EXCEPT !.deepest = Top.first.res.deepest] ELSE r,
                     child)
    /\ UNCHANGED <<dirs, disturbed>>
    /\ UNCHANGED outside_walk

\* the call is about to return a Cwd or to look whether one exists
AboutToReturn ==
    \/ Top.pc = "children"
    \/ Top.pc = "next" /\ Top.toks = <<>>
    \/ Top.pc = "merge"
    \/ Top.pc \in {"peek", "find"} /\ Top.toks = <<>>

\* a directory is removed while the walk runs.  Only the next existence
\* check or return can tell when, so removals are taken right before one.
RemoveDir ==
    /\ Walking
    /\ AboutToReturn
    /\ Cardinality(WalkDirs \ dirs) < MaxRemovals
    /\ \E d \in dirs : dirs' = dirs \ {d}
    /\ disturbed' = TRUE
    /\ UNCHANGED <<stack, cres, last_ret, stderr>>
    /\ UNCHANGED outside_walk

\* the process tables: processes 1..k, every one but 1 the child of a
\* process with a smaller pid; children are listed by ascending pid
ParentMaps(k) == { f \in [1..k -> 0..k] : f[1] = 0 /\ \A p \in 2..k : f[p] \in 1..(p - 1) }

RECURSIVE Ascending(_)
Ascending(S) ==
    IF S = {} THEN <<>>
    ELSE LET m == CHOOSE x \in S : \A y \in S : x <= y
         IN <<m>> \o Ascending(S \ {m})

ChildrenOf(parent) ==
    [p \in DOMAIN parent |-> Ascending({c \in DOMAIN parent : parent[c] = p})]

NoReturn ==
    [pid |-> 0, own |-> NoCwd, first |-> NoChild, results |-> <<>>,
     chosen |-> CRunning, result |-> CRunning, existing |-> {}, depth |-> 0,
     at |-> ""]

WalkInit ==
    /\ \E k \in 1..NPids :
        /\ proc_exe \in [1..k -> WalkExes]
        /\ proc_cwd \in [1..k -> WalkDirs]
        /\ \E parent \in ParentMaps(k) : proc_children = ChildrenOf(parent)
    /\ dirs = WalkDirs
    /\ priority_commands \in WalkPriorityLists
    /\ debug_assertions \in BOOLEAN
    /\ stack = <<NewFrame(1)>>
    /\ cres = CRunning
    /\ last_ret = NoReturn
    /\ disturbed = FALSE

\* process tables as a walk may read them when pids are reused while it
\* runs: the children file of a process may name a process the walk came
\* through.  Two pids make a loop; a loop stands for every chain longer
\* than the stack is deep.
LoopInit ==
    /\ \E k \in 1..2 :
        /\ proc_exe \in [1..k -> WalkExes]
        /\ proc_cwd \in [1..k -> WalkDirs]
        /\ proc_children \in { f \in [1..k -> {<<>>} \cup { <<c>> : c \in 1..k }] :
                                  \A p \in 1..k : f[p] # <<p>> }
    /\ dirs = WalkDirs
    /\ priority_commands \in WalkPriorityLists
    /\ debug_assertions \in BOOLEAN
    /\ stack = <<NewFrame(1)>>
    /\ cres = CRunning
    /\ last_ret = NoReturn
    /\ disturbed = FALSE

WalkIdle ==
    /\ proc_exe = <<>>
    /\ proc_cwd = <<>>
    /\ proc_children = <<>>
    /\ dirs = {}
    /\ priority_commands = <<>>
    /\ debug_assertions = FALSE
    /\ stack = <<>>
    /\ cres = CRunning
    /\ last_ret = NoReturn
    /\ disturbed = FALSE

WalkStep ==
    \/ ReadExe
    \/ ReadCwd
    \/ ReadChildren
    \/ Descend
    \/ NoValidChild
    \/ Merge
    \/ RemoveDir

----------------------------------------------------------------------------
(* main *)

\* no run of main: these specifications call one function alone
MainIdle == stdout = <<>> /\ exit_status = ""

\* the process has not ended
InMain == exit_status = ""

\* what dirs::home_dir() names
Home == "$HOME"

\* lines 208-209: the focus resolver returned (proc, pid), and get_child_cwd
\* is called on pid with the arguments of the command line
MainCallCwd ==
    /\ InMain
    /\ fpc = "done"
    /\ fres.kind = "ok"
    /\ stack = <<>>
    /\ cres = CRunning
    /\ stack' = <<NewFrame(fres.pid)>>
    /\ UNCHANGED <<cres, last_ret, disturbed, dirs, stderr>>
    /\ UNCHANGED outside_walk

\* a directory is removed between the return of get_child_cwd and the check
\* of main
RemoveDirBeforeCheck ==
    /\ InMain
    /\ stack = <<>>
    /\ cres.kind = "ok"
    /\ Cardinality(WalkDirs \ dirs) < MaxRemovals
    /\ \E d \in dirs : dirs' = dirs \ {d}
    /\ disturbed' = TRUE
    /\ UNCHANGED <<stack, cres, last_ret, stderr>>
    /\ UNCHANGED outside_walk

\* lines 209-217 and 222: get_child_cwd returned a Cwd, which a debug build
\* checks and asserts, and the path is printed
MainPrintCwd ==
    /\ InMain
    /\ stack = <<>>
    /\ cres.kind = "ok"
    /\ IF debug_assertions /\ exists_or_err(cres, dirs).kind # "ok"
       THEN /\ exit_status' = "panic"
            /\ stdout' = stdout
       ELSE /\ exit_status' = "success"
            /\ stdout' = Append(stdout, cres.cwd.path)
    /\ UNCHANGED <<stderr, cwd_vars>>
    /\ UNCHANGED <<focus_vars, classify_vars>>

\* lines 218-222: one of the two resolvers returned an error, which is
\* printed to stderr, and the home directory is printed; home_dir() is
\* unwrapped and may be None
MainFallback ==
    /\ InMain
    /\ \/ fpc = "done" /\ fres.kind = "err"
       \/ stack = <<>> /\ cres.kind = "err"
    /\ stderr' = Append(stderr, <<IF fres.kind = "err" THEN fres.msg ELSE cres.msg, 0, 0>>)
    /\ \E home \in BOOLEAN :
        IF home
        THEN /\ exit_status' = "success"
             /\ stdout' = Append(stdout, Home)
        ELSE /\ exit_status' = "panic"
             /\ stdout' = stdout
    /\ UNCHANGED cwd_vars
    /\ UNCHANGED <<focus_vars, classify_vars>>

\* a panic in one of the resolvers unwinds through main: nothing is printed
\* to stdout and the exit status is that of a panic
MainPanic ==
    /\ InMain
    /\ \/ fpc = "done" /\ fres.kind = "panic"
       \/ stack = <<>> /\ cres.kind = "panic"
    /\ exit_status' = "panic"
    /\ UNCHANGED <<stdout, stderr, cwd_vars>>
    /\ UNCHANGED <<focus_vars, classify_vars>>

\* the process table and the command line at the start of main
MainInit ==
    /\ \E k \in 1..NPids :
        /\ proc_exe \in [1..k -> WalkExes]
        /\ proc_cwd \in [1..k -> WalkDirs]
        /\ \E parent \in ParentMaps(k) : proc_children = ChildrenOf(parent)
    /\ dirs = WalkDirs
    /\ priority_commands \in WalkPriorityLists
    /\ debug_assertions \in BOOLEAN
    /\ stack = <<>>
    /\ cres = CRunning
    /\ last_ret = NoReturn
    /\ disturbed = FALSE
    /\ stdout = <<>>
    /\ exit_status = ""

MainStep ==
    \/ MainCallCwd
    \/ RemoveDirBeforeCheck
    \/ MainPrintCwd
    \/ MainFallback
    \/ MainPanic

----------------------------------------------------------------------------
(* Specifications *)

\* the Focus Resolver alone
InitFocus == FocusInit /\ stderr = <<>> /\ ClassifyIdle /\ WalkIdle /\ MainIdle
NextFocus == FocusStep
SpecFocus == InitFocus /\ [][NextFocus]_vars

\* Cwd::new alone, on inputs drawn from the bounded sets
InitClassify == FocusIdle /\ stderr = <<>> /\ ClassifyInit /\ WalkIdle /\ MainIdle
NextClassify == Classify
SpecClassify == InitClassify /\ [][NextClassify]_vars

\* get_child_cwd alone, called on pid 1 of a process table
InitCwd == FocusIdle /\ stderr = <<>> /\ ClassifyIdle /\ WalkInit /\ MainIdle
NextCwd == WalkStep
SpecCwd == InitCwd /\ [][NextCwd]_vars

\* get_child_cwd alone, on process tables whose children files loop
InitLoop == FocusIdle /\ stderr = <<>> /\ ClassifyIdle /\ LoopInit /\ MainIdle
NextLoop == WalkStep \/ StackOverflow
SpecLoop == InitLoop /\ [][NextLoop]_vars

\* the program: main
Init == FocusInit /\ stderr = <<>> /\ ClassifyIdle /\ MainInit
Next == FocusStep \/ WalkStep \/ MainStep
Spec == Init /\ [][Next]_vars

----------------------------------------------------------------------------
(* Properties of the Focus Resolver, checked under SpecFocus *)

\* the positions in the log of the requests named op
Requested(op) == { i \in 1..Len(log) : log[i] = op }

\* the steps up to and including the read of _NET_ACTIVE_WINDOW
EarlySteps == {"connect", "root", "active_atom", "active_prop"}

\* C1: /proc is opened only after the focused window handle has been read
\* from _NET_ACTIVE_WINDOW, _NET_WM_PID is requested only after /proc has
\* been opened, and a run that fails at or before the active-window step
\* never opens /proc.
C1_ProcOpenedBetweenWindowAndPid ==
    /\ \A i \in Requested("open /proc") :
          /\ window # WINDOW_NONE
          /\ \E j \in Requested("get_property _NET_ACTIVE_WINDOW") : j < i
    /\ \A k \in Requested("get_property _NET_WM_PID") :
          /\ proc
          /\ \E i \in Requested("open /proc") : i < k
    /\ (fres.kind \in {"err", "panic"} /\ fres.at \in EarlySteps) =>
          (~proc /\ Requested("open /proc") = {})

\* C1 witness: a run that opened /proc and then read the pid
C1_Witness ==
    /\ proc
    /\ fres.kind = "ok"
    /\ Requested("get_property _NET_WM_PID") # {}

\* a well-formed WM_STATE reply: one item of 4 bytes
StateReplies ==
    { i \in 1..Len(replies) :
        /\ replies[i].step = "state_prop"
        /\ replies[i].ok
        /\ replies[i].value_len = 1
        /\ replies[i].nbytes = 4 }

\* C2: once WM_STATE has been read with a value other than Normal, the run
\* has ended with the not-in-normal-state error and _NET_WM_PID is not
\* requested.
C2_NotNormalIsStateError ==
    \A i \in StateReplies :
        replies[i].value # X11WmState.Normal =>
            /\ fpc = "done"
            /\ fres = Err("Focused window is not in normal (visible) state", "state_prop")
            /\ Requested("get_property _NET_WM_PID") = {}

\* C2 witness: WM_STATE was Iconic and the run ended with the error
C2_Witness ==
    /\ \E i \in StateReplies : replies[i].value = X11WmState.Iconic
    /\ fres.kind = "err"
    /\ fpc = "done"

\* C3: a reply to one of the three fixed-width property requests whose
\* value count is not 1 ends the run with an ordinary error at that step.
C3_CountNotOneIsError ==
    \A i \in 1..Len(replies) :
        (replies[i].step # "class_prop" /\ replies[i].ok /\ replies[i].value_len # 1) =>
            /\ fpc = "done"
            /\ fres.kind = "err"
            /\ fres.at = replies[i].step

\* C4: no run ends in a panic.
C4_NoPanic ==
    /\ fres.kind # "panic"
    /\ cres.kind # "panic"

----------------------------------------------------------------------------
(* Properties of Cwd::new, checked under SpecClassify *)

Classified == cwd_out # NoCwd

\* C8: the classification carries the process's cwd, and is Priority exactly
\* when the executable path is, as a whole, an entry of the priority list;
\* it is Regular otherwise, and always for the empty list.
C8_PriorityIffExactEntry ==
    Classified =>
        /\ cwd_out.path = cwd_in
        /\ cwd_out.tag \in {"Priority", "Regular"}
        /\ cwd_out.tag = "Priority" <=>
              exe_in \in { priority_in[i] : i \in 1..Len(priority_in) }
        /\ priority_in = <<>> => cwd_out.tag = "Regular"

\* C8 witness: Priority through the second entry of a list whose first
\* entry is another command
C8_Witness ==
    /\ Classified
    /\ Len(priority_in) = 2
    /\ priority_in[1] # exe_in
    /\ cwd_out = Priority(cwd_in)

BashCase ==
    /\ Classified
    /\ exe_in = <<"/", "usr", "bin", "bash">>
    /\ cwd_in = "/home/a"

\* C9 as claimed: /usr/bin/bash in /home/a against the list ["bash"] is
\* Priority("/home/a").
C9_BareNameMatches ==
    (BashCase /\ priority_in = << <<"bash">> >>) => cwd_out = Priority("/home/a")

\* C9 as amended: /usr/bin/bash in /home/a against the list ["bash"] is
\* Regular("/home/a"); it is Priority("/home/a") against ["/usr/bin/bash"].
C9_BareNameDoesNotMatch ==
    /\ (BashCase /\ priority_in = << <<"bash">> >>) => cwd_out = Regular("/home/a")
    /\ (BashCase /\ priority_in = << <<"/", "usr", "bin", "bash">> >>) =>
          cwd_out = Priority("/home/a")

\* C9 witness: the case of the claim has been classified
C9_Witness ==
    /\ BashCase
    /\ priority_in = << <<"bash">> >>
    /\ cwd_out.tag = "Regular"

----------------------------------------------------------------------------
(* Properties of get_child_cwd, checked under SpecCwd.  They are stated    *)
(* of last_ret, the call that returned last, and so of every call.         *)

\* the call came back to its caller (it did not end the program in a panic)
Returned == last_ret.result.kind \in {"ok", "err"}

\* the call got as far as choosing a child and merging
Merged == last_ret.chosen.kind = "ok"

\* the call read exe, cwd and the children list of its process, and ended
ReadNode ==
    /\ last_ret.own # NoCwd
    /\ last_ret.result.msg # "Unable to open children"

SameCwd(r, q) == r.kind = "ok" /\ r.cwd = q.cwd /\ r.origin = q.origin

PriorityResults ==
    { i \in 1..Len(last_ret.results) : last_ret.results[i].res.cwd.tag = "Priority" }

Least(S) == CHOOSE x \in S : \A y \in S : x <= y

\* C5: a call that resolved a child to a Priority Cwd returns the first
\* such child result, whatever its own tag and whatever precedes it.
C5_FirstPriorityChildWins ==
    (Returned /\ PriorityResults # {}) =>
        SameCwd(last_ret.result, last_ret.results[Least(PriorityResults)].res)

\* C5 witness: a Priority node whose first child resolved Regular and whose
\* second resolved Priority returned the second one's Cwd
C5_Witness ==
    /\ Returned
    /\ last_ret.own.tag = "Priority"
    /\ Len(last_ret.results) = 2
    /\ last_ret.results[1].res.cwd.tag = "Regular"
    /\ last_ret.results[2].res.cwd.tag = "Priority"
    /\ SameCwd(last_ret.result, last_ret.results[2].res)

NoPriorityProcess ==
    \A p \in DOMAIN proc_exe :
        CwdNew(proc_cwd[p], proc_exe[p], priority_commands).tag = "Regular"

\* P with cwd /home and its only child C with cwd /tmp, childless, both
\* Regular
HomeTmpTable ==
    /\ proc_children = << <<2>>, <<>> >>
    /\ proc_cwd = << "/home", "/tmp" >>
    /\ NoPriorityProcess

\* C6: a Regular node none of whose resolved children is Priority returns
\* the Cwd of its first resolved child; with no priority process at all the
\* outermost call returns the Regular cwd of the last process on the chain
\* of first resolved children; P(Regular /home) over C(Regular /tmp) gives
\* Regular /tmp.
C6_RegularFollowsFirstChild ==
    /\ (Returned /\ last_ret.own.tag = "Regular"
            /\ last_ret.results # <<>> /\ PriorityResults = {}) =>
          SameCwd(last_ret.result, last_ret.results[1].res)
    /\ (cres.kind = "ok" /\ NoPriorityProcess) =>
          /\ cres.cwd = Regular(proc_cwd[cres.deepest])
          /\ cres.origin = cres.deepest
    /\ (cres.kind = "ok" /\ HomeTmpTable /\ last_ret.results # <<>>) =>
          cres.cwd = Regular("/tmp")

\* C6 witness: the example resolved to the child's Regular /tmp
C6_Witness ==
    /\ HomeTmpTable
    /\ cres.kind = "ok"
    /\ last_ret.pid = 1
    /\ last_ret.results # <<>>
    /\ cres.cwd = Regular("/tmp")
    /\ cres.deepest = 2

PriorityOverRegular ==
    /\ Merged
    /\ last_ret.own.tag = "Priority"
    /\ last_ret.chosen.cwd.tag = "Regular"

OwnError == CErr("does not exist anymore", 0, last_ret.own.path)

----------------------------------------------------------------------------
(* Failures of reads in get_child_cwd, checked under SpecCwd *)

\* the last call read its exe and cwd, and then failed to open or read its
\* list of children
ChildrenReadFailed ==
    /\ last_ret.own # NoCwd
    /\ last_ret.at = "children"
    /\ last_ret.result.msg = "Unable to open children"

\* C11: a call that read its exe and its cwd and then failed to open or to
\* read its list of children returns its own classified Cwd, as a success.
C11_ChildrenFailureFallsBackToOwn ==
    ChildrenReadFailed =>
        /\ last_ret.result.kind = "ok"
        /\ last_ret.result.cwd = last_ret.own

\* the top-level call has ended, after reading the exe and cwd of its pid
RootReadable ==
    /\ ~Walking
    /\ cres.kind # "running"
    /\ last_ret.pid = 1
    /\ last_ret.depth = 1
    /\ last_ret.own # NoCwd

\* C12: the top-level call returns an error only when the exe or the cwd of
\* its own pid cannot be read; whenever both are read it returns some Cwd,
\* whatever fails to be read below it and whatever directory vanishes.
C12_ErrorOnlyWhenRootUnreadable ==
    /\ RootReadable => cres.kind = "ok"
    /\ (~Walking /\ cres.kind = "err") =>
           /\ last_ret.pid = 1
           /\ last_ret.own = NoCwd
           /\ last_ret.result.msg \in {"Unable to read exe", "Unable to read cwd"}

----------------------------------------------------------------------------
(* Depth of the recursion, checked under SpecLoop *)

\* C13: the descent into children is guarded by a depth cap: on every
\* process table, one with a chain of any depth or with a loop included, the
\* nested calls stay within a fixed bound and the top-level call ends by
\* returning, never by running out of stack.
C13_DescentIsCapped ==
    /\ Len(stack) <= StackLimit
    /\ cres # CPanic("stack overflow")

----------------------------------------------------------------------------
(* The properties of the focused window, checked under SpecFocus *)

\* the replies to the request named step
RepliesAt(step) == { i \in 1..Len(replies) : replies[i].step = step }

\* a reply of one item of 4 bytes
OneU32(i) == replies[i].ok /\ replies[i].value_len = 1 /\ replies[i].nbytes = 4

\* C14: once _NET_ACTIVE_WINDOW has been read as exactly one value equal to
\* WINDOW_NONE, the run has ended with the no-window-focused error: neither
\* WM_STATE nor _NET_WM_PID is requested, and no pid is returned.
C14_WindowNoneIsNoFocusError ==
    \A i \in RepliesAt("active_prop") :
        (OneU32(i) /\ replies[i].value = WINDOW_NONE) =>
            /\ fpc = "done"
            /\ fres = Err("No window is focused", "active_prop")
            /\ Requested("get_property WM_STATE") = {}
            /\ Requested("get_property _NET_WM_PID") = {}

\* C14 witness: the sentinel was read and the run ended with the error
C14_Witness ==
    /\ \E i \in RepliesAt("active_prop") : OneU32(i) /\ replies[i].value = WINDOW_NONE
    /\ fpc = "done"
    /\ fres.msg = "No window is focused"

\* the property is not set: the reply has no item
Absent(i) == replies[i].ok /\ replies[i].value_len = 0

\* the request was answered with an error
RequestFailed(i) == ~replies[i].ok

\* the step that read reply i failed: the request failed or, for a property
\* read as one 32-bit item, the property is not set or is not one such item
StepFailed(i) ==
    \/ RequestFailed(i)
    \/ replies[i].step # "class_prop" /\ ~OneU32(i)

\* the run has gone on past the read of WM_STATE: it is at, or has ended at,
\* one of the steps that read the pid
AtPidSteps ==
    /\ fpc \in {"pid_atom", "pid_prop", "class_prop", "done"}
    /\ fres.kind = "running" \/ fres.at \in {"pid_atom", "pid_prop", "class_prop"}

\* C15, as claimed: when WM_STATE is not set the run goes on to the read of
\* _NET_WM_PID just as it does when WM_STATE is Normal, and this is the only
\* failure of a step after which a pid can still be returned.
C15_OnlyAbsentWmStateGoesOn ==
    \A i \in 1..Len(replies) :
        /\ (replies[i].step = "state_prop" /\ Absent(i)) => AtPidSteps
        /\ (replies[i].step = "state_prop" /\ OneU32(i)
              /\ replies[i].value = X11WmState.Normal) => AtPidSteps
        /\ (StepFailed(i) /\ ~(replies[i].step = "state_prop" /\ Absent(i))) =>
               fres.kind # "ok"

\* C15, amended: when WM_STATE is not set the run goes on to the read of
\* _NET_WM_PID just as it does when WM_STATE is Normal, and so it does when
\* the WM_STATE request is answered with an error; after every other failure
\* of a step no pid is returned.
C15_AbsentOrFailedWmStateGoesOn ==
    \A i \in 1..Len(replies) :
        /\ (replies[i].step = "state_prop" /\ (Absent(i) \/ RequestFailed(i))) =>
               AtPidSteps
        /\ (replies[i].step = "state_prop" /\ OneU32(i)
              /\ replies[i].value = X11WmState.Normal) => AtPidSteps
        /\ (StepFailed(i) /\ replies[i].step # "state_prop") => fres.kind # "ok"
        /\ (replies[i].step = "state_prop" /\ StepFailed(i)
              /\ ~Absent(i) /\ ~RequestFailed(i)) => fres.kind # "ok"

\* C15 witness: WM_STATE was not set and the run returned a pid
C15_Witness ==
    /\ \E i \in RepliesAt("state_prop") : Absent(i)
    /\ fpc = "done"
    /\ fres.kind = "ok"

\* C16: when _NET_WM_PID is not set no pid is returned: WM_CLASS is read and
\* the run ends with the unimplemented error that carries the class name,
\* the bytes of WM_CLASS up to the first nul; a pid is returned only when
\* _NET_WM_PID is set, and is its 32-bit value.
C16_AbsentPidIsUnimplemented ==
    /\ (\E i \in RepliesAt("pid_prop") : Absent(i)) =>
          /\ fres.kind # "ok"
          /\ fpc = "done" =>
                /\ Requested("get_property WM_CLASS") # {}
                /\ fres.kind = "err"
                /\ fres.msg = "Unimplemented: Find processes named"
                /\ \E j \in RepliesAt("class_prop") :
                       fres.class = take_while_not_nul(replies[j].raw)
    /\ fres.kind = "ok" =>
          \E i \in RepliesAt("pid_prop") : OneU32(i) /\ fres.pid = replies[i].value

----------------------------------------------------------------------------
(* The diagnostic, the existence of what is returned and the tag of the    *)
(* result, checked under SpecCwd                                           *)

\* the multiple-children warnings printed about process pid
Warnings(pid) ==
    { i \in 1..Len(stderr) :
        /\ stderr[i][1] = MultipleChildren(pid, 0)[1]
        /\ stderr[i][2] = pid }

\* the last call read its children file and found more than one pid in it
ManyChildren ==
    /\ Returned
    /\ last_ret.own # NoCwd
    /\ last_ret.at \in {"next", "peek", "find", "merge"}
    /\ Len(proc_children[last_ret.pid]) > 1

\* C18: a call on a process with more than one child in its children file
\* prints the multiple-children warning, and the child pid the warning names
\* is the pid of the child whose resolved Cwd the call chose.
C18_WarningNamesChosenChild ==
    ManyChildren =>
        \E i \in Warnings(last_ret.pid) :
            \E j \in 1..Len(last_ret.results) :
                /\ last_ret.results[j].pid = stderr[i][3]
                /\ last_ret.results[j].res = last_ret.chosen

\* C19: a Cwd returned as a success names a directory that exists when the
\* call returns, whatever directories are removed while the walk runs, and
\* no existence assertion fails.
C19_ReturnedCwdExists ==
    /\ last_ret.result.kind = "ok" => last_ret.result.cwd.path \in last_ret.existing
    /\ last_ret.result.kind # "panic"

\* the processes of the subtree of p
RECURSIVE Subtree(_)
Subtree(p) ==
    {p} \cup UNION { Subtree(proc_children[p][i]) : i \in 1..Len(proc_children[p]) }

\* what Cwd::new makes of process p
Classification(p) == CwdNew(proc_cwd[p], proc_exe[p], priority_commands)

\* the top-level call has ended, and until then every read succeeded and no
\* directory was removed
StaticRun == ~Walking /\ cres.kind # "running" /\ ~disturbed

\* C20: on a process table that does not change the top-level call returns
\* the classification of one process of the subtree of its pid, and a
\* Priority one iff some process of that subtree is classified Priority.
C20_PriorityIffSubtreeHasPriority ==
    StaticRun =>
        /\ cres.kind = "ok"
        /\ cres.cwd.tag = "Priority" <=>
               \E p \in Subtree(1) : Classification(p).tag = "Priority"
        /\ \E p \in Subtree(1) : cres.cwd = Classification(p)

\* C20 witness: a Regular root over a Regular first child and a Priority
\* second child returned the Priority Cwd of the second
C20_Witness ==
    /\ StaticRun
    /\ proc_children[1] = <<2, 3>>
    /\ Classification(1).tag = "Regular"
    /\ Classification(2).tag = "Regular"
    /\ Classification(3).tag = "Priority"
    /\ cres.kind = "ok"
    /\ cres.cwd = Classification(3)

----------------------------------------------------------------------------
(* The program, checked under Spec *)

\* C17: a run ends only with the exit status of success, and then exactly
\* one line has been printed: the resolved path when both resolvers
\* succeeded, the home directory when the Focus Resolver or the top-level
\* call of the Cwd Resolver ended in an error.
C17_OneLineThenSuccess ==
    /\ exit_status \in {"", "success"}
    /\ exit_status = "" => stdout = <<>>
    /\ exit_status = "success" =>
          /\ Len(stdout) = 1
          /\ (fres.kind = "ok" /\ cres.kind = "ok") => stdout[1] = cres.cwd.path
          /\ (fres.kind = "err" \/ cres.kind = "err") => stdout[1] = Home

============================================================================
